---- MODULE Spec2Model ----
(***************************************************************************)
(* Model of the Midnite Solar Home Assistant integration                   *)
(* (custom_components/midnite): the Modbus hub (hub.py), the poll          *)
(* coordinator (coordinator.py) and the entity layer that reads the        *)
(* coordinator's snapshot and writes registers through the hub.            *)
(*                                                                         *)
(* The pymodbus client is the environment: each client call picks one of   *)
(* the outcomes the library can produce (a result, an error response, no   *)
(* result, an exception) and the socket state it leaves behind.            *)
(***************************************************************************)
EXTENDS Integers, Sequences, FiniteSets, TLC

\* ------------------------------------------------------------------ bounds
\* Poll cycles the coordinator runs, and entity writes issued.
MaxCycles == 2
MaxWrites == 1

\* ------------------------------------------------------- program constants
\* hub.py:61  max_retries = 5
max_retries == 5

\* const.py:10-130 (the entries the model uses)
REGISTER_MAP ==
    [ UNIT_ID |-> 4101, STATUSROLL |-> 4113, DISP_AVG_VBATT |-> 4115,
      IBATT_DISPLAY_S |-> 4117, COMBO_CHARGE_STAGE |-> 4120,
      PV_INPUT_CURRENT |-> 4121, BATT_TEMPERATURE |-> 4132,
      MODBUS_PORT_REGISTER |-> 4137,
      BATTERY_OUTPUT_CURRENT_LIMIT |-> 4148,
      ABSORB_SETPOINT_VOLTAGE |-> 4149, FLOAT_VOLTAGE_SETPOINT |-> 4150,
      EQUALIZE_VOLTAGE_SETPOINT |-> 4151, ABSORB_TIME_EEPROM |-> 4154,
      FORCE_FLAG_BITS |-> 4160, EQUALIZE_TIME_EEPROM |-> 4162,
      EQUALIZE_INTERVAL_DAYS_EEPROM |-> 4163, MPPT_MODE |-> 4164,
      AUX_1_AND_2_FUNCTION |-> 4165, UNIT_NAME_0 |-> 4210,
      UNIT_NAME_1 |-> 4211, UNIT_NAME_2 |-> 4212, UNIT_NAME_3 |-> 4213 ]

\* const.py:198-210  FORCE_FLAGS: bit positions in the force-flag register
FORCE_FLAGS ==
    [ ForceEEpromUpdate |-> 2, ForceFloat |-> 5, ForceBulk |-> 6,
      ForceEqualize |-> 7, ForceSweep |-> 16, ResetFlags |-> 20,
      ForceResetFaults |-> 29 ]

\* coordinator.py:29-125: the group table the coordinator polls, in dict
\* order.  The model keeps two of the ten groups, with two registers of
\* "status" (in the order the source lists them, which is not sorted) and
\* one of "settings".
GroupOrder == << "status", "settings" >>
REGISTER_GROUPS ==
    [ status   |-> << REGISTER_MAP.COMBO_CHARGE_STAGE, REGISTER_MAP.STATUSROLL >>,
      settings |-> << REGISTER_MAP.MPPT_MODE >> ]

\* The two threads of control that call the hub: the coordinator's poll
\* (_async_update_data and the executor jobs it awaits) and an entity action
\* running its write in another executor thread.
Callers == { "poll", "entity" }

VARIABLES
    lock,        \* MidniteHub._lock: "free" or the caller holding it
    sockOpen,    \* ModbusTcpClient.is_socket_open()
    call,        \* per caller: the hub call it is executing
    cpc,         \* position of _async_update_data
    gi,          \* index into GroupOrder of the group being read
    ri,          \* index into the group's sorted register list
    data,        \* _async_update_data: data (group -> result_data)
    result_data, \* _read_register_group: result_data (address -> value)
    failed_registers, \* _read_register_group: failed_registers
    unavailable_entities, \* _async_update_data: unavailable_entities
    coordData,   \* DataUpdateCoordinator.data, the published snapshot
    prevData,    \* the snapshot the last publish replaced
    lastUpdate,  \* outcome of the last finished cycle: none / success / failed
    cycles,      \* poll cycles started
    refreshRequested, \* coordinator.async_request_refresh() pending
    epc,         \* position of the entity action
    writes,      \* entity writes issued
    \* history of the current cycle (what the claims speak about)
    probeLog,    \* hub calls of this cycle's liveness and probe phase
    okReads,     \* addresses whose group read succeeded in this cycle
    failReads,   \* addresses whose group read failed in this cycle
    groupLog,    \* the group reads this cycle has issued, in order
    probeOk,     \* the probe of this cycle succeeded
    reconnects,  \* disconnects the probe phase of this cycle has issued
    connectFailed, \* this cycle's liveness reconnect did not return True
    device,      \* the device and network: "flaky" or "responding"
    reconcile,   \* progress from a good setpoint write to a fresh snapshot
    ent,         \* the entity action in progress: its kind, input and locals
    writeLog,    \* register writes the entity action has issued, in order
    fin,         \* input of an entity value computation
    fout         \* its result

hubVars   == << lock, sockOpen, call >>
pollVars  == << cpc, gi, ri, data, result_data, failed_registers,
                unavailable_entities, coordData, prevData, lastUpdate,
                cycles, probeLog, groupLog, okReads, failReads, probeOk, reconnects,
                connectFailed >>
entVars   == << epc, writes >>
valueVars == << fin, fout >>
vars      == << lock, sockOpen, call, cpc, gi, ri, data, result_data,
                failed_registers, unavailable_entities, coordData, prevData,
                lastUpdate, cycles, refreshRequested, epc, writes, probeLog,
                groupLog, okReads, failReads, probeOk, reconnects, connectFailed,
                device, reconcile, ent, writeLog, fin, fout >>

\* ------------------------------------------------------------------ helpers
EmptyMap == << >>

Min(S) == CHOOSE x \in S : \A y \in S : x <= y

SeqToSet(s) == { s[i] : i \in 1..Len(s) }

\* sorted(set(registers))   coordinator.py:240
RECURSIVE SortSet(_)
SortSet(S) == IF S = {} THEN << >>
              ELSE << Min(S) >> \o SortSet(S \ { Min(S) })

\* The registers in the order the group table lists them.
regs_as_listed(registers) == registers

sorted_regs(registers) == SortSet(SeqToSet(registers))

\* coordinator.data before any refresh has succeeded (None in the source).
NoSnapshot == [ valid |-> FALSE, data |-> EmptyMap, availability |-> EmptyMap ]

\* No entity action in progress, and no value computation.
NoAction == [ kind |-> "none" ]
NoInput == [ kind |-> "none" ]

\* An idle hub call record.
NoCall == [ op |-> "none", pc |-> "idle", addr |-> 0, val |-> 0,
            attempt |-> 0, ios |-> 0, last |-> "none", res |-> "none",
            nested |-> "none", slept |-> 0 ]

\* A caller enters a hub method: it next waits for `with self._lock`.
Invoke(c, op, addr, val) ==
    [ call EXCEPT ![c] = [ NoCall EXCEPT !.op = op, !.pc = "wait",
                                         !.addr = addr, !.val = val ] ]

\* A hub method returns (or raises: res = "raise") to its caller.
Returned(c) == call[c].pc = "done"

\* Optional values: None, or a value wrapped in a one-element sequence.
None == << >>
Some(v) == << v >>

notHubVars == << cpc, gi, ri, data, result_data, failed_registers,
                 unavailable_entities, coordData, prevData, lastUpdate,
                 cycles, refreshRequested, epc, writes, probeLog, groupLog, okReads,
                 failReads, probeOk, reconnects, connectFailed, device,
                 reconcile, ent, writeLog, fin, fout >>

\* ===================================================================== hub
\* hub.py:13-100  class MidniteHub.  Every method body runs inside
\* `with self._lock:` where _lock is a threading.Lock (not re-entrant).

\* The hub method `op` is running for caller c, either called by c directly
\* or called by read_holding_registers as self.connect() / self.disconnect().
Running(c, op) ==
    IF call[c].pc = "in" THEN call[c].op = op
    ELSE call[c].pc = "nested_in" /\ call[c].nested = op

\* threading.Lock: acquire succeeds only while nobody holds the lock.
LockAvailableUnchecked == TRUE

LockAvailable == lock = "free"

\* Entry of `with self._lock:`  (hub.py:25, 30, 36, 45, 62)
lock_acquire(c) ==
    /\ call[c].pc \in { "wait", "nested_wait" }
    /\ LockAvailable
    /\ lock' = c
    /\ call' = [ call EXCEPT ![c].pc = IF call[c].pc = "wait" THEN "in"
                                        ELSE "nested_in" ]
    /\ UNCHANGED << sockOpen, notHubVars >>

\* hub.py:23-26
is_still_connected(c) ==
    /\ call[c].op = "is_still_connected"
    /\ call[c].pc = "in"
    /\ call' = [ call EXCEPT ![c].pc = "done",
                             ![c].res = IF sockOpen THEN "True" ELSE "False" ]
    /\ lock' = "free"
    /\ UNCHANGED << sockOpen, notHubVars >>

\* hub.py:94-97  backoff_time = 0.2 * (attempt + 1), in tenths of a second,
\* slept only when another attempt follows.
Backoff(attempt) ==
    IF attempt < max_retries - 1 THEN 2 * (attempt + 1) ELSE 0

\* The retry loop moves on to its next iteration after a failed attempt.
NextAttempt(rec, outcome, delay) ==
    [ rec EXCEPT !.attempt = @ + 1, !.pc = "in",
                 !.slept = delay, !.nested = "none" ]

\* Outcomes of ModbusTcpClient.connect(): an open socket stays open, and a
\* responding device accepts the connection.
ConnectOutcomes == IF sockOpen \/ device = "responding" THEN { "True" }
                   ELSE { "True", "False", "raise" }

\* hub.py:28-32.  Called from read_holding_registers (hub.py:68) its return
\* value is dropped and the read goes on to sleep 0.2 s and read; an
\* exception it raises lands in the read's except branch (hub.py:81).
connect(c) ==
    /\ Running(c, "connect")
    /\ \E outcome \in ConnectOutcomes :
         /\ sockOpen' = IF outcome = "True" THEN TRUE ELSE sockOpen
         /\ call' = [ call EXCEPT ![c] =
               IF call[c].pc = "in"
               THEN [ @ EXCEPT !.pc = "done", !.res = outcome ]
               ELSE IF outcome = "raise"
               THEN NextAttempt(@, "exc", Backoff(@.attempt))
               ELSE [ @ EXCEPT !.pc = "io", !.nested = "none" ] ]
    /\ lock' = "free"
    /\ UNCHANGED notHubVars

\* hub.py:34-40.  Called from the read's except branch (hub.py:90) the read
\* goes on to its backoff sleep and next attempt.
disconnect(c) ==
    /\ Running(c, "disconnect")
    /\ sockOpen' = FALSE
    /\ call' = [ call EXCEPT ![c] =
          IF call[c].pc = "in"
          THEN [ @ EXCEPT !.pc = "done", !.res = "None" ]
          ELSE NextAttempt(@, "decode", Backoff(@.attempt)) ]
    /\ lock' = "free"
    /\ UNCHANGED notHubVars

\* Outcomes of ModbusTcpClient.write_register: a response, an error
\* response, no result, or an exception.  A responding device answers.
WriteOutcomes == IF device = "responding" THEN { "ok" }
                 ELSE { "ok", "error", "None", "raise" }

\* Socket state a client call leaves: a response came over an open socket;
\* without one the library may have closed it.
SocketAfter(outcome) ==
    IF outcome \in { "ok", "error" } THEN { TRUE } ELSE { TRUE, FALSE }

\* A write that tries again after a transport exception.
write_register_retrying(c) ==
    /\ call[c].op = "write"
    /\ call[c].pc = "in"
    /\ \E outcome \in WriteOutcomes : \E s \in SocketAfter(outcome) :
         /\ sockOpen' = s
         /\ IF outcome = "raise" /\ call[c].ios = 0
            THEN /\ call' = [ call EXCEPT ![c].ios = @ + 1,
                                          ![c].last = outcome ]
                 /\ UNCHANGED lock
            ELSE /\ call' = [ call EXCEPT ![c].pc = "done",
                                          ![c].ios = @ + 1,
                                          ![c].last = outcome,
                                          ![c].res = outcome ]
                 /\ lock' = "free"
    /\ UNCHANGED notHubVars

\* hub.py:42-54
write_register(c) ==
    /\ call[c].op = "write"
    /\ call[c].pc = "in"
    /\ \E outcome \in WriteOutcomes : \E s \in SocketAfter(outcome) :
         /\ sockOpen' = s
         /\ call' = [ call EXCEPT ![c].pc = "done", ![c].ios = @ + 1,
                                  ![c].last = outcome, ![c].res = outcome ]
    /\ lock' = "free"
    /\ UNCHANGED notHubVars

\* for attempt in range(max_retries)   hub.py:63
RetriesExhaustedLate(attempt) == attempt > max_retries

RetriesExhausted(attempt) == attempt >= max_retries

\* hub.py:63-70 and 99-100: the head of one loop iteration, or the loop's
\* exit.  With the socket closed the read calls self.connect(), which
\* starts by taking self._lock.
read_holding_registers_attempt(c) ==
    /\ call[c].op = "read"
    /\ call[c].pc = "in"
    /\ IF RetriesExhausted(call[c].attempt)
       THEN /\ call' = [ call EXCEPT ![c].pc = "done", ![c].res = "None" ]
            /\ lock' = "free"
       ELSE /\ call' = [ call EXCEPT
                  ![c].pc = IF sockOpen THEN "io" ELSE "nested_wait",
                  ![c].nested = IF sockOpen THEN "none" ELSE "connect" ]
            /\ UNCHANGED lock
    /\ UNCHANGED << sockOpen, notHubVars >>

\* Outcomes of ModbusTcpClient.read_holding_registers: a good response, an
\* error response, no result, an exception, or an exception whose text
\* holds "Unable to decode request" or "byte_count".
ReadOutcomes == IF device = "responding" THEN { "ok" }
                ELSE { "ok", "error", "None", "exc", "decode" }

\* hub.py:72-97: the client read of one attempt and what the loop does with
\* its outcome.
read_holding_registers_io(c) ==
    /\ call[c].op = "read"
    /\ call[c].pc = "io"
    /\ \E outcome \in ReadOutcomes : \E s \in SocketAfter(outcome) :
         /\ sockOpen' = s
         /\ IF outcome = "ok"
            THEN /\ call' = [ call EXCEPT ![c].pc = "done",
                                  ![c].ios = @ + 1, ![c].last = outcome,
                                  ![c].res = "ok", ![c].slept = 0 ]
                 /\ lock' = "free"
            ELSE /\ call' = [ call EXCEPT ![c] =
                      LET rec == [ @ EXCEPT !.ios = @ + 1 ] IN
                      CASE outcome \in { "error", "None" } ->
                             NextAttempt(rec, outcome, 0)
                        [] outcome = "exc" ->
                             NextAttempt(rec, outcome, Backoff(rec.attempt))
                        [] outcome = "decode" ->
                             IF rec.attempt < max_retries - 1
                             THEN [ rec EXCEPT !.pc = "nested_wait",
                                               !.nested = "disconnect" ]
                             ELSE NextAttempt(rec, outcome, 0) ]
                 /\ UNCHANGED lock
    /\ UNCHANGED notHubVars

HubStep(c) ==
    \/ lock_acquire(c)
    \/ is_still_connected(c)
    \/ connect(c)
    \/ disconnect(c)
    \/ write_register(c)
    \/ read_holding_registers_attempt(c)
    \/ read_holding_registers_io(c)

\* ============================================================= coordinator
\* coordinator.py:128-294  class MidniteSolarUpdateCoordinator

\* The device's answer to a good read of an address (one fixed register
\* image: 4120 holds charge stage 5 / state 3, 4164 holds mode 0x0003).
DeviceValue(addr) ==
    CASE addr = REGISTER_MAP.COMBO_CHARGE_STAGE -> 5 * 256 + 3
      [] addr = REGISTER_MAP.MPPT_MODE -> 3
      [] OTHER -> addr % 256

entityVars == << refreshRequested, epc, writes, ent, writeLog, valueVars,
                device >>

\* The poll hands a hub method to the executor (or calls it directly) and
\* awaits its return.
\* The result of the hub call the poll was awaiting, entered in the log.
LogReturn == [ probeLog EXCEPT ![Len(probeLog)].res = call["poll"].res ]

PollInvoke(op, addr) ==
    /\ call' = Invoke("poll", op, addr, 0)
    /\ probeLog' = Append(LogReturn, [ op |-> op, addr |-> addr,
                                       res |-> "pending" ])

\* data = {} at the start of _async_update_data  (coordinator.py:156)
InitialDataCarried == IF coordData.valid THEN coordData.data ELSE EmptyMap

InitialData == EmptyMap

\* An update that is started by the periodic timer only.
PollDueOnTimerOnly == cycles < MaxCycles

\* The coordinator's update is due: the periodic timer fired (MaxCycles
\* times at most) or an entity requested a refresh.  The host framework's
\* async_request_refresh is taken as a pending request that the next
\* update serves.

PollDue == cycles < MaxCycles \/ refreshRequested

\* coordinator.py:152-160: a poll cycle starts (the periodic timer or a
\* requested refresh) and asks the hub whether the socket is open.
async_update_data_start ==
    /\ cpc = "idle"
    /\ PollDue
    /\ reconcile' = IF reconcile = "written" THEN "polling" ELSE reconcile
    /\ cycles' = cycles + 1
    /\ data' = InitialData
    /\ unavailable_entities' = EmptyMap
    /\ result_data' = EmptyMap
    /\ failed_registers' = << >>
    /\ gi' = 0
    /\ ri' = 0
    /\ okReads' = {}
    /\ failReads' = {}
    /\ groupLog' = << >>
    /\ probeOk' = FALSE
    /\ reconnects' = 0
    /\ connectFailed' = FALSE
    /\ lastUpdate' = "running"
    /\ refreshRequested' = FALSE
    /\ call' = Invoke("poll", "is_still_connected", 0, 0)
    /\ probeLog' = << [ op |-> "is_still_connected", addr |-> 0,
                       res |-> "pending" ] >>
    /\ cpc' = "liveness"
    /\ prevData' = NoSnapshot
    /\ UNCHANGED << lock, sockOpen, coordData, epc, writes, ent, writeLog,
                    valueVars, device >>

\* raise UpdateFailed: the cycle ends failed and the snapshot stays.
UpdateFailed ==
    /\ cpc' = "idle"
    /\ lastUpdate' = "failed"
    /\ call' = [ call EXCEPT !["poll"] = NoCall ]
    /\ probeLog' = LogReturn
    /\ reconcile' = IF reconcile = "polling" THEN "written" ELSE reconcile
    /\ UNCHANGED << coordData, data, unavailable_entities, result_data,
                    failed_registers, gi, ri, groupLog, okReads, failReads, probeOk >>

\* coordinator.py:160-176: the liveness answer; reconnect when closed,
\* otherwise go on to the first probe read.
async_update_data_liveness ==
    /\ cpc = "liveness"
    /\ Returned("poll")
    /\ IF call["poll"].res = "True"
       THEN /\ PollInvoke("read", REGISTER_MAP.UNIT_ID)
            /\ cpc' = "probe1"
       ELSE /\ PollInvoke("connect", 0)
            /\ cpc' = "reconnect"
    /\ UNCHANGED << lock, sockOpen, gi, ri, data, result_data,
                    failed_registers, unavailable_entities, coordData,
                    lastUpdate, cycles, groupLog, okReads, failReads, probeOk,
                    reconnects, connectFailed, entityVars,
                    prevData, reconcile >>

\* coordinator.py:162-176: the reconnect returned.  Only an exception
\* fails the cycle; the value connect returns is not looked at.
async_update_data_reconnect ==
    /\ cpc = "reconnect"
    /\ Returned("poll")
    /\ connectFailed' = (call["poll"].res # "True")
    /\ IF call["poll"].res = "raise"
       THEN UpdateFailed
       ELSE /\ PollInvoke("read", REGISTER_MAP.UNIT_ID)
            /\ cpc' = "probe1"
            /\ UNCHANGED << gi, ri, data, result_data, failed_registers,
                            unavailable_entities, coordData, lastUpdate,
                            groupLog, okReads, failReads, probeOk, reconcile >>
    /\ UNCHANGED << lock, sockOpen, cycles, reconnects, entityVars,
                    prevData >>

\* for group_name, registers in REGISTER_GROUPS.items()  (coordinator.py:214)
\* and _read_register_group's first register read (coordinator.py:240-249).
GroupRegs(i) == sorted_regs(REGISTER_GROUPS[GroupOrder[i]])

\* coordinator.py:246-248: _read_register_group hands
\* read_holding_registers(reg, 1) for one register of group i to the
\* executor.
GroupReadIssued(i, reg) ==
    Append(groupLog, [ group |-> GroupOrder[i], addr |-> reg, count |-> 1 ])

\* The probe succeeded: the group loop starts with the first group.  The
\* history of the probe phase ends here.
BeginGroups ==
    /\ probeOk' = TRUE
    /\ gi' = 1
    /\ ri' = 1
    /\ result_data' = EmptyMap
    /\ failed_registers' = << >>
    /\ call' = Invoke("poll", "read", GroupRegs(1)[1], 0)
    /\ groupLog' = GroupReadIssued(1, GroupRegs(1)[1])
    /\ probeLog' = << >>
    /\ reconnects' = 0
    /\ connectFailed' = FALSE
    /\ cpc' = "groups"
    /\ UNCHANGED << data, unavailable_entities, coordData, lastUpdate,
                    okReads, failReads >>

\* coordinator.py:174-185: the UNIT_ID probe returned; on failure the
\* second canary DISP_AVG_VBATT is read.
async_update_data_probe1 ==
    /\ cpc = "probe1"
    /\ Returned("poll")
    /\ IF call["poll"].res = "ok"
       THEN BeginGroups
       ELSE /\ PollInvoke("read", REGISTER_MAP.DISP_AVG_VBATT)
            /\ cpc' = "probe2"
            /\ UNCHANGED << gi, ri, data, result_data, failed_registers,
                            unavailable_entities, coordData, lastUpdate,
                            groupLog, okReads, failReads, probeOk, reconnects,
                            connectFailed >>
    /\ UNCHANGED << lock, sockOpen, cycles, entityVars,
                    prevData, reconcile >>

\* coordinator.py:180-194: the second canary returned; when it failed too,
\* UpdateFailed is raised inside the try and the except branch starts the
\* recovery with a disconnect.
async_update_data_probe2 ==
    /\ cpc = "probe2"
    /\ Returned("poll")
    /\ IF call["poll"].res = "ok"
       THEN BeginGroups
       ELSE /\ PollInvoke("disconnect", 0)
            /\ cpc' = "recover_disconnect"
            /\ reconnects' = reconnects + 1
            /\ UNCHANGED << gi, ri, data, result_data, failed_registers,
                            unavailable_entities, coordData, lastUpdate,
                            groupLog, okReads, failReads, probeOk, connectFailed >>
    /\ UNCHANGED << lock, sockOpen, cycles, entityVars,
                    prevData, reconcile >>

\* coordinator.py:194-196: the disconnect returned; sleep 0.3 s, reconnect.
async_update_data_recover_disconnect ==
    /\ cpc = "recover_disconnect"
    /\ Returned("poll")
    /\ PollInvoke("connect", 0)
    /\ cpc' = "recover_connect"
    /\ UNCHANGED << lock, sockOpen, gi, ri, data, result_data,
                    failed_registers, unavailable_entities, coordData,
                    lastUpdate, cycles, groupLog, okReads, failReads, probeOk,
                    reconnects, connectFailed, entityVars,
                    prevData, reconcile >>

\* coordinator.py:196-202 and 209-211: the reconnect returned; an exception
\* fails the cycle, any returned value leads to the re-probe of UNIT_ID.
async_update_data_recover_connect ==
    /\ cpc = "recover_connect"
    /\ Returned("poll")
    /\ IF call["poll"].res = "raise"
       THEN UpdateFailed
       ELSE /\ PollInvoke("read", REGISTER_MAP.UNIT_ID)
            /\ cpc' = "reprobe"
            /\ UNCHANGED << gi, ri, data, result_data, failed_registers,
                            unavailable_entities, coordData, lastUpdate,
                            groupLog, okReads, failReads, probeOk, reconcile >>
    /\ UNCHANGED << lock, sockOpen, cycles, reconnects, connectFailed,
                    entityVars, prevData >>

\* A recovery that starts over once more when the re-probe fails.
async_update_data_reprobe_again ==
    /\ cpc = "reprobe"
    /\ Returned("poll")
    /\ IF call["poll"].res = "ok"
       THEN BeginGroups /\ UNCHANGED reconcile
       ELSE IF reconnects < 2
       THEN /\ PollInvoke("disconnect", 0)
            /\ cpc' = "recover_disconnect"
            /\ reconnects' = reconnects + 1
            /\ UNCHANGED << gi, ri, data, result_data, failed_registers,
                            unavailable_entities, coordData, lastUpdate,
                            groupLog, okReads, failReads, probeOk, connectFailed,
                            reconcile >>
       ELSE /\ UpdateFailed
            /\ UNCHANGED << reconnects, connectFailed >>
    /\ UNCHANGED << lock, sockOpen, cycles, entityVars, prevData >>

\* coordinator.py:200-211: the re-probe returned.
async_update_data_reprobe ==
    /\ cpc = "reprobe"
    /\ Returned("poll")
    /\ IF call["poll"].res = "ok"
       THEN BeginGroups /\ UNCHANGED reconcile
       ELSE /\ UpdateFailed
            /\ UNCHANGED << reconnects, connectFailed >>
    /\ UNCHANGED << lock, sockOpen, cycles, entityVars, prevData >>

\* str(reg): the decimal text of an address, the key of the availability
\* mapping (coordinator.py:223).
str(n) == << "str", n >>

\* The group loop goes on while REGISTER_GROUPS has another group, whatever
\* the result of the group just read (coordinator.py:214-227).
MoreGroupsUnlessFailed(i, result) == i < Len(GroupOrder) /\ result # None

MoreGroups(i, result) == i < Len(GroupOrder)

\* coordinator.py:244-267 and 214-232: one register read of a group
\* returned.  After the group's last register the group result is filed
\* (coordinator.py:217-223), and after the last group the snapshot is
\* returned and published as coordinator.data.
read_register_group ==
    /\ cpc = "groups"
    /\ Returned("poll")
    /\ LET g    == GroupOrder[gi]
           regs == GroupRegs(gi)
           reg  == regs[ri]
           good == call["poll"].res = "ok"
           rd   == IF good THEN (reg :> DeviceValue(reg)) @@ result_data
                   ELSE result_data
           fr   == IF good THEN failed_registers
                   ELSE Append(failed_registers, reg)
           result == IF rd # EmptyMap THEN Some(rd) ELSE None
           d    == IF result # None THEN (g :> rd) @@ data ELSE data
           u    == IF result # None THEN unavailable_entities
                   ELSE [ k \in DOMAIN unavailable_entities \cup
                            { str(r) : r \in SeqToSet(REGISTER_GROUPS[g]) }
                          |-> FALSE ]
       IN  /\ okReads' = IF good THEN okReads \cup { reg } ELSE okReads
           /\ failReads' = IF good THEN failReads ELSE failReads \cup { reg }
           /\ IF ri < Len(regs)
              THEN /\ ri' = ri + 1
                   /\ result_data' = rd
                   /\ failed_registers' = fr
                   /\ call' = Invoke("poll", "read", regs[ri + 1], 0)
                   /\ groupLog' = GroupReadIssued(gi, regs[ri + 1])
                   /\ UNCHANGED probeLog
                   /\ UNCHANGED << gi, data, unavailable_entities, cpc,
                                   coordData, prevData, lastUpdate,
                                   reconcile >>
              ELSE /\ data' = d
                   /\ unavailable_entities' = u
                   /\ IF MoreGroups(gi, result)
                      THEN /\ gi' = gi + 1
                           /\ ri' = 1
                           /\ result_data' = EmptyMap
                           /\ failed_registers' = << >>
                           /\ call' = Invoke("poll", "read",
                                             GroupRegs(gi + 1)[1], 0)
                           /\ groupLog' = GroupReadIssued(gi + 1,
                                               GroupRegs(gi + 1)[1])
                           /\ UNCHANGED probeLog
                           /\ UNCHANGED << cpc, coordData, prevData,
                                           lastUpdate, reconcile >>
                      ELSE /\ coordData' = [ valid |-> TRUE, data |-> d,
                                             availability |-> u ]
                           /\ reconcile' = IF reconcile = "polling"
                                           THEN "published" ELSE reconcile
                           /\ prevData' = coordData
                           /\ lastUpdate' = "success"
                           /\ cpc' = "idle"
                           /\ call' = [ call EXCEPT !["poll"] = NoCall ]
                           /\ UNCHANGED << probeLog, groupLog >>
                           /\ result_data' = rd
                           /\ failed_registers' = fr
                           /\ UNCHANGED << gi, ri >>
    /\ UNCHANGED << lock, sockOpen, cycles, probeOk, reconnects,
                    connectFailed, entityVars >>

PollStep ==
    \/ async_update_data_start
    \/ async_update_data_liveness
    \/ async_update_data_reconnect
    \/ async_update_data_probe1
    \/ async_update_data_probe2
    \/ async_update_data_recover_disconnect
    \/ async_update_data_recover_connect
    \/ async_update_data_reprobe
    \/ read_register_group

\* ================================================================ entities
\* Entities exist once the first refresh has succeeded (__init__.py:52-54).

\* `not result or result.isError()`, or the hub call raised.
WriteFailed(res) == res # "ok"

\* An entity action hands hub.write_register to the executor and awaits it.
EntityWrite(log, addr, val) ==
    /\ call' = Invoke("entity", "write", addr, val)
    /\ writeLog' = Append(log, [ addr |-> addr, val |-> val,
                                 res |-> "pending" ])

\* The result of the write the action was awaiting, entered in the log.
WriteReturned == [ writeLog EXCEPT ![Len(writeLog)].res = call["entity"].res ]

\* number.py:118-289: the number entities, their register and whether the
\* class sets is_time_value (EqualizeIntervalDaysNumber does not).
NumberEntities ==
    [ AbsorbVoltage |->
          [ register_address |-> REGISTER_MAP.ABSORB_SETPOINT_VOLTAGE,
            is_time_value |-> FALSE ],
      FloatVoltage |->
          [ register_address |-> REGISTER_MAP.FLOAT_VOLTAGE_SETPOINT,
            is_time_value |-> FALSE ],
      BatteryCurrentLimit |->
          [ register_address |-> REGISTER_MAP.BATTERY_OUTPUT_CURRENT_LIMIT,
            is_time_value |-> FALSE ],
      AbsorbTime |->
          [ register_address |-> REGISTER_MAP.ABSORB_TIME_EEPROM,
            is_time_value |-> TRUE ],
      EqualizeTime |->
          [ register_address |-> REGISTER_MAP.EQUALIZE_TIME_EEPROM,
            is_time_value |-> TRUE ],
      EqualizeIntervalDays |->
          [ register_address |-> REGISTER_MAP.EQUALIZE_INTERVAL_DAYS_EEPROM,
            is_time_value |-> FALSE ] ]

\* number.py:94-98: int(value) for a time value, int(value * 10) otherwise.
\* The entered value is carried in tenths (13.5 is 135), so int(value) is
\* tenths \div 10 and int(value * 10) is the tenths themselves.
number_register_value(tenths, is_time_value) ==
    IF is_time_value THEN tenths \div 10 ELSE tenths

\* The value a user sets on the number entity of the main specification.
SetpointInput == [ entity |-> "FloatVoltage", tenths |-> 135 ]

\* number.py:91-105: a number entity is set; its write goes to the hub in
\* an executor thread.
async_set_value_write ==
    /\ epc = "idle"
    /\ coordData.valid
    /\ writes < MaxWrites
    /\ writes' = writes + 1
    /\ LET e == NumberEntities[SetpointInput.entity] IN
        EntityWrite(<< >>, e.register_address,
                    number_register_value(SetpointInput.tenths,
                                          e.is_time_value))
    /\ ent' = [ kind |-> "number", arg |-> SetpointInput.entity,
                outcome |-> "running" ]
    /\ epc' = "writing"
    /\ UNCHANGED << lock, sockOpen, pollVars, refreshRequested,
                    valueVars, device, reconcile >>

\* number.py:113  await self.coordinator.async_request_refresh(), reached
\* only after a good result.
RefreshAfter(res) == ~WriteFailed(res)

\* number.py:106-115: the write returned; a failed result or an exception
\* is logged and the method returns False, a good result requests a
\* refresh and returns True.  Neither way does an exception leave the
\* method.
async_set_value_result ==
    /\ epc = "writing"
    /\ ent.kind = "number"
    /\ Returned("entity")
    /\ refreshRequested' =
           (refreshRequested \/ RefreshAfter(call["entity"].res))
    /\ reconcile' = IF WriteFailed(call["entity"].res) THEN reconcile
                    ELSE "written"
    /\ writeLog' = WriteReturned
    /\ ent' = [ ent EXCEPT !.outcome = "completed" ]
    /\ call' = [ call EXCEPT !["entity"] = NoCall ]
    /\ epc' = "idle"
    /\ UNCHANGED << lock, sockOpen, pollVars, writes, valueVars, device >>

\* button.py:62-131: the three buttons and the force flag each one sets.
Buttons ==
    [ ForceEEpromUpdateButton |-> "ForceEEpromUpdate",
      ResetFaultsButton |-> "ForceResetFaults",
      ResetFlagsButton |-> "ResetFlags" ]

\* button.py:72-78, 96-102, 120-126: a press writes 1 << flag to the
\* force-flag register.
async_press ==
    /\ epc = "idle"
    /\ ent = NoAction
    /\ \E b \in DOMAIN Buttons :
         /\ EntityWrite(<< >>, REGISTER_MAP.FORCE_FLAG_BITS,
                        2 ^ FORCE_FLAGS[Buttons[b]])
         /\ ent' = [ kind |-> "button", arg |-> b, outcome |-> "running" ]
    /\ writes' = writes + 1
    /\ epc' = "writing"
    /\ UNCHANGED << lock, sockOpen, pollVars, refreshRequested,
                    valueVars, device, reconcile >>

\* button.py:79-83, 103-107, 127-131: the write returned; a failed result
\* or an exception is logged and the press completes.
async_press_result ==
    /\ epc = "writing"
    /\ ent.kind = "button"
    /\ Returned("entity")
    /\ writeLog' = WriteReturned
    /\ ent' = [ ent EXCEPT !.outcome = "completed" ]
    /\ call' = [ call EXCEPT !["entity"] = NoCall ]
    /\ epc' = "idle"
    /\ UNCHANGED << lock, sockOpen, pollVars, refreshRequested, writes,
                    valueVars, device, reconcile >>

EntityStep ==
    \/ async_set_value_write
    \/ async_set_value_result

\* ========================================================== derived values
\* What entities compute from coordinator.data.

\* coordinator.py:269-278
RECURSIVE get_register_value_from(_, _)
get_register_value_from(i, address) ==
    IF i > Len(GroupOrder) THEN None
    ELSE LET g == GroupOrder[i] IN
         IF address \in SeqToSet(REGISTER_GROUPS[g])
            /\ g \in DOMAIN coordData.data
         THEN IF address \in DOMAIN coordData.data[g]
              THEN Some(coordData.data[g][address])
              ELSE None
         ELSE get_register_value_from(i + 1, address)

get_register_value(address) ==
    IF ~coordData.valid THEN None
    ELSE get_register_value_from(1, address)

\* coordinator.data["data"].get(group), then .get(address): the lookup the
\* selects make themselves (select.py:85-89, 149-153).
GroupLookup(group, address) ==
    IF coordData.valid /\ group \in DOMAIN coordData.data
       /\ address \in DOMAIN coordData.data[group]
    THEN Some(coordData.data[group][address])
    ELSE None

\* number.py:72-89: raw / 10.0, or the raw value for a time value; the
\* quotient is kept as << numerator, denominator >>.
number_scaled(value, is_time_value) ==
    << value, IF is_time_value THEN 1 ELSE 10 >>

number_native_value(address, is_time_value) ==
    LET value == get_register_value(address) IN
    IF value # None
    THEN Some(number_scaled(value[1], is_time_value))
    ELSE None

\* const.py:213-222
MPPT_MODES ==
    [ v \in { 1, 3, 5, 7, 9, 11, 13, 15 } |->
        CASE v = 1 -> "PV_Uset"
          [] v = 3 -> "DYNAMIC"
          [] v = 5 -> "WIND_TRACK"
          [] v = 9 -> "Legacy P&O"
          [] v = 11 -> "SOLAR"
          [] v = 13 -> "HYDRO"
          [] OTHER -> "RESERVED" ]

\* select.py:154  MPPT_MODES.get(value, f"Unknown (0x{value:04X})")
mppt_mode_label(value) ==
    IF value \in DOMAIN MPPT_MODES THEN MPPT_MODES[value]
    ELSE << "Unknown", value >>

\* select.py:146-155  MPPTModeSelector.current_option
MPPTModeSelector_current_option ==
    LET value == GroupLookup("settings", REGISTER_MAP.MPPT_MODE) IN
    IF value # None
    THEN Some(mppt_mode_label(value[1]))
    ELSE Some("PV_Uset")

\* select.py:81-101  ChargeModeSelector.current_option
ChargeModeSelector_current_option ==
    LET raw_value == GroupLookup("status", REGISTER_MAP.COMBO_CHARGE_STAGE)
        charge_stage_value ==
            IF raw_value # None THEN (raw_value[1] \div 256) % 256 ELSE -1
    IN  CASE charge_stage_value = 5 -> Some("Float")
          [] charge_stage_value = 4 -> Some("Bulk")
          [] charge_stage_value = 7 -> Some("Equalize")
          [] OTHER -> Some("None")

\* ===================================================== selects and text
\* Python's integer operators on non-negative values.
RECURSIVE BitAnd(_, _)
BitAnd(a, b) ==
    IF a = 0 \/ b = 0 THEN 0
    ELSE (IF a % 2 = 1 /\ b % 2 = 1 THEN 1 ELSE 0)
         + 2 * BitAnd(a \div 2, b \div 2)

RECURSIVE BitOr(_, _)
BitOr(a, b) ==
    IF a = 0 THEN b
    ELSE IF b = 0 THEN a
    ELSE (IF a % 2 = 1 \/ b % 2 = 1 THEN 1 ELSE 0)
         + 2 * BitOr(a \div 2, b \div 2)

ShiftRight(a, n) == a \div (2 ^ n)
ShiftLeft(a, n) == a * (2 ^ n)

\* const.py:231-240 and 242-251
AUX1_FUNCTIONS ==
    << "Off", "Auto", "On", "HiAbs", "LoAbs", "WasteNot", "PVHiAbs",
       "PVLoAbs" >>
AUX2_FUNCTIONS ==
    << "Off", "Auto", "On", "HiAbs", "LoAbs", "WasteNot", "PWM",
       "PVHiAbs" >>

\* list.index(option), zero-based
IndexOf(list, option) ==
    (CHOOSE i \in 1..Len(list) : list[i] = option) - 1

\* select.py:225-230 and 302-307: the combined AUX register as the snapshot
\* holds it.  An empty "aux_settings" group is falsy and a missing one is
\* None: either way there is no current value.
aux_current_value ==
    GroupLookup("aux_settings", REGISTER_MAP.AUX_1_AND_2_FUNCTION)

\* A rebuild that puts the AUX 2 index into bits 6-8.
Aux2NewValueHigh(current_value, function_index) ==
    LET aux1_function_bits == BitAnd(current_value, 7)
        on_off_bit == BitAnd(ShiftRight(current_value, 8), 1)
    IN  BitOr(BitOr(BitAnd(aux1_function_bits, 7),
                    ShiftLeft(BitAnd(function_index, 7), 6)),
              ShiftLeft(BitAnd(on_off_bit, 1), 8))

\* select.py:231-236  Aux1FunctionSelector: new_value
Aux1NewValue(current_value, function_index) ==
    LET aux2_function_bits == BitAnd(ShiftRight(current_value, 3), 7)
        on_off_bit == BitAnd(ShiftRight(current_value, 8), 1)
    IN  BitOr(BitOr(BitAnd(function_index, 7),
                    ShiftLeft(BitAnd(aux2_function_bits, 7), 3)),
              ShiftLeft(BitAnd(on_off_bit, 1), 8))

\* select.py:308-313  Aux2FunctionSelector: new_value
Aux2NewValue(current_value, function_index) ==
    LET aux1_function_bits == BitAnd(current_value, 7)
        on_off_bit == BitAnd(ShiftRight(current_value, 8), 1)
    IN  BitOr(BitOr(BitAnd(aux1_function_bits, 7),
                    ShiftLeft(BitAnd(function_index, 7), 3)),
              ShiftLeft(BitAnd(on_off_bit, 1), 8))

AuxSelectors == [ AUX1 |-> AUX1_FUNCTIONS, AUX2 |-> AUX2_FUNCTIONS ]

\* A current value the handler takes when the snapshot has none.
AuxCurrentOrZero == IF aux_current_value # None THEN aux_current_value
                    ELSE Some(0)

\* The current value the handler works from (select.py:229, 306).
AuxCurrent == aux_current_value

\* An AUX select has run to its end with both of its writes succeeding and
\* no select has followed it yet: the user may now select again, on either
\* selector, before any poll has replaced the snapshot.
AuxSelectedBefore ==
    /\ ent.kind = "aux"
    /\ ent.outcome = "completed"
    /\ "first" \notin DOMAIN ent
    /\ Len(writeLog) = 2
    /\ \A i \in DOMAIN writeLog : ~WriteFailed(writeLog[i].res)

\* The record of the select under way; a second select keeps the selector
\* and index of the one before it.
AuxSelection(sel, function_index, outcome) ==
    IF ent = NoAction
    THEN [ kind |-> "aux", arg |-> << sel, function_index >>,
           outcome |-> outcome ]
    ELSE [ kind |-> "aux", arg |-> << sel, function_index >>,
           outcome |-> outcome, first |-> ent.arg ]

\* select.py:216-242 and 293-319: an AUX function is selected.  Without a
\* current value the handler logs a warning and returns; with one it
\* issues the write of the rebuilt register value.
aux_async_select_option ==
    /\ epc = "idle"
    /\ ent = NoAction \/ AuxSelectedBefore
    /\ \E sel \in DOMAIN AuxSelectors :
       \E option \in SeqToSet(AuxSelectors[sel]) :
         LET function_index == IndexOf(AuxSelectors[sel], option)
             current_value == AuxCurrent
         IN  IF current_value # None
             THEN /\ EntityWrite(<< >>, REGISTER_MAP.AUX_1_AND_2_FUNCTION,
                          IF sel = "AUX1"
                          THEN Aux1NewValue(current_value[1], function_index)
                          ELSE Aux2NewValue(current_value[1], function_index))
                  /\ ent' = AuxSelection(sel, function_index, "running")
                  /\ writes' = writes + 1
                  /\ epc' = "aux_write"
             ELSE /\ ent' = AuxSelection(sel, function_index, "completed")
                  /\ UNCHANGED << call, writeLog, writes, epc >>
    /\ UNCHANGED << lock, sockOpen, pollVars, refreshRequested,
                    valueVars, device, reconcile >>

\* select.py:243-253 and 320-330: the AUX write returned; whatever its
\* result (a failure is only logged) the handler writes the EEPROM-commit
\* flag 1 << 2 to the force-flag register.
aux_force_eeprom_update ==
    /\ epc = "aux_write"
    /\ Returned("entity")
    /\ EntityWrite(WriteReturned, REGISTER_MAP.FORCE_FLAG_BITS,
                   ShiftLeft(1, 2))
    /\ writes' = writes + 1
    /\ epc' = "aux_eeprom"
    /\ UNCHANGED << lock, sockOpen, pollVars, refreshRequested, ent,
                    valueVars, device, reconcile >>

\* select.py:254-260 and 331-337: the commit write returned; a refresh is
\* requested whatever the results were.
aux_request_refresh ==
    /\ epc = "aux_eeprom"
    /\ Returned("entity")
    /\ writeLog' = WriteReturned
    /\ refreshRequested' = TRUE
    /\ ent' = [ ent EXCEPT !.outcome = "completed" ]
    /\ call' = [ call EXCEPT !["entity"] = NoCall ]
    /\ epc' = "idle"
    /\ UNCHANGED << lock, sockOpen, pollVars, writes, valueVars, device,
                    reconcile >>

\* Characters are carried as their code points (ord).
Space == 32

\* value[:8]
Truncate(value, n) == SubSeq(value, 1, IF Len(value) < n THEN Len(value) ELSE n)

\* s.ljust(n)
ljust(value, n) ==
    [ i \in 1..(IF Len(value) > n THEN Len(value) ELSE n) |->
        IF i <= Len(value) THEN value[i] ELSE Space ]

\* text.py:140  padded_value = value[:8].ljust(8)
padded_value(value) == ljust(Truncate(value, 8), 8)

\* A register value with the first character in the high byte.
name_register_value_swapped(padded, i) ==
    BitOr(ShiftLeft(padded[i * 2 + 1], 8), padded[i * 2 + 2])

\* text.py:145-152: the two characters of name register i and the register
\* value ord(char1) | (ord(char2) << 8).
name_register_value(padded, i) ==
    LET char1 == padded[i * 2 + 1]
        char2 == padded[i * 2 + 2]
    IN  BitOr(char1, ShiftLeft(char2, 8))

\* REGISTER_MAP[f"UNIT_NAME_{i}"]   text.py:154
UnitNameRegister(i) ==
    CASE i = 0 -> REGISTER_MAP.UNIT_NAME_0
      [] i = 1 -> REGISTER_MAP.UNIT_NAME_1
      [] i = 2 -> REGISTER_MAP.UNIT_NAME_2
      [] i = 3 -> REGISTER_MAP.UNIT_NAME_3

\* Names a user may enter: empty, shorter than, exactly and longer than 8
\* characters ("", "M", "CLASSIC", "Classic1", "SolarShed2").
NameInputs ==
    { << >>, << 77 >>, << 67, 76, 65, 83, 83, 73, 67 >>,
      << 67, 108, 97, 115, 115, 105, 99, 49 >>,
      << 83, 111, 108, 97, 114, 83, 104, 101, 100, 50 >> }

\* text.py:137-157: a host name is set; the handler starts with the write
\* of name register 0.
text_async_set_value ==
    /\ epc = "idle"
    /\ ent = NoAction
    /\ \E value \in NameInputs :
         /\ EntityWrite(<< >>, UnitNameRegister(0),
                        name_register_value(padded_value(value), 0))
         /\ ent' = [ kind |-> "text", arg |-> value, outcome |-> "running" ]
    /\ writes' = writes + 1
    /\ epc' = "name_write_0"
    /\ UNCHANGED << lock, sockOpen, pollVars, refreshRequested,
                    valueVars, device, reconcile >>

\* Position of the handler after the write of name register i was issued.
NameWritePc(i) ==
    CASE i = 0 -> "name_write_0"
      [] i = 1 -> "name_write_1"
      [] i = 2 -> "name_write_2"
      [] i = 3 -> "name_write_3"

\* text.py:155-163: a name write returned.  A failed result or an
\* exception ends the handler (return False); after a good one it writes
\* the next name register, and after the fourth the EEPROM-commit flag
\* (text.py:165-171).
text_write_returned ==
    /\ ent.kind = "text"
    /\ \E i \in 0..3 :
         /\ epc = NameWritePc(i)
         /\ Returned("entity")
         /\ IF WriteFailed(call["entity"].res)
            THEN /\ writeLog' = WriteReturned
                 /\ ent' = [ ent EXCEPT !.outcome = "completed" ]
                 /\ call' = [ call EXCEPT !["entity"] = NoCall ]
                 /\ epc' = "idle"
                 /\ UNCHANGED writes
            ELSE /\ IF i < 3
                    THEN /\ EntityWrite(WriteReturned, UnitNameRegister(i + 1),
                               name_register_value(padded_value(ent.arg),
                                                   i + 1))
                         /\ epc' = NameWritePc(i + 1)
                    ELSE /\ EntityWrite(WriteReturned,
                               REGISTER_MAP.FORCE_FLAG_BITS, ShiftLeft(1, 2))
                         /\ epc' = "name_eeprom"
                 /\ writes' = writes + 1
                 /\ UNCHANGED ent
    /\ UNCHANGED << lock, sockOpen, pollVars, refreshRequested,
                    valueVars, device, reconcile >>

\* text.py:172-181: the commit write returned; after a good result the
\* handler requests a refresh and returns True, otherwise it returns
\* False.
text_eeprom_returned ==
    /\ epc = "name_eeprom"
    /\ Returned("entity")
    /\ writeLog' = WriteReturned
    /\ refreshRequested' =
           (refreshRequested \/ ~WriteFailed(call["entity"].res))
    /\ ent' = [ ent EXCEPT !.outcome = "completed" ]
    /\ call' = [ call EXCEPT !["entity"] = NoCall ]
    /\ epc' = "idle"
    /\ UNCHANGED << lock, sockOpen, pollVars, writes, valueVars, device,
                    reconcile >>

\* Combined AUX register values a snapshot may hold: every sub-field set
\* and clear, and bits outside the three fields set.
AuxValues == { 0, 1, 33, 64, 128, 225, 256, 289, 511, 512, 32768, 65535 }

\* Snapshots an entity action may find: none, one without the
\* "aux_settings" group (all that coordinator.py:29-125 polls), one whose
\* group is empty or lacks the combined register (it failed to read), and
\* one per AuxValues (the group of const.py:352-361).
EntitySnapshots ==
    { NoSnapshot }
    \cup { [ valid |-> TRUE, data |-> d, availability |-> EmptyMap ] :
             d \in { ("settings" :> (REGISTER_MAP.MPPT_MODE :> 3)),
                     ("aux_settings" :> EmptyMap),
                     ("aux_settings" :> (4166 :> 0)) } }
    \cup { [ valid |-> TRUE,
             data |-> ("aux_settings" :>
                          (REGISTER_MAP.AUX_1_AND_2_FUNCTION :> v)),
             availability |-> EmptyMap ] : v \in AuxValues }

\* ========================================================== sensor values
\* Values sensors compute from a raw register value.  Quantities the source
\* holds as floats are carried exactly: temperatures and currents in tenths
\* of a unit, time in tenths of a second.
Abs(x) == IF x < 0 THEN -x ELSE x

\* Readings a user-visible sensor takes before the model stops.
MaxReadings == 3

\* Raw 16-bit register values: zero, small, around each limit, around the
\* sign boundary and small negative values in two's complement.
RawValues ==
    { 0, 100, 250, 252, 253, 400, 1000, 1001, 1500, 1501, 2000, 2001,
      32767, 32768, 63536, 64535, 65036, 65037, 65436, 65535 }

\* sensor.py:399 and 838: `if current_value > 32767`, where current_value
\* is value / 10.0: in tenths, more than 327670.
SignTest(current_value) == current_value > 327670

\* sensor.py:396-407 (limit 200 A) and 836-847 (limit 100 A): the current
\* in tenths of an ampere, or None.
current_native_value(value, limit) ==
    LET scaled == value
        current_value == IF SignTest(scaled) THEN scaled - 655360
                         ELSE scaled
    IN  IF Abs(current_value) > limit * 10 THEN None
        ELSE Some(current_value)

\* sensor.py:374-407 and 815-848: the two current sensors, their register
\* and their valid range in amperes.
CurrentSensors ==
    [ BatteryCurrentSensor |->
          [ register |-> REGISTER_MAP.IBATT_DISPLAY_S, limit |-> 200 ],
      PVInputCurrentSensor |->
          [ register |-> REGISTER_MAP.PV_INPUT_CURRENT, limit |-> 100 ] ]

\* A current sensor is read while the snapshot holds `value` for it.
current_sensor_read ==
    /\ fin = NoInput
    /\ \E sensor \in DOMAIN CurrentSensors : \E value \in RawValues :
         /\ fin' = [ kind |-> "current", sensor |-> sensor,
                     value |-> value ]
         /\ fout' = current_native_value(value, CurrentSensors[sensor].limit)
    /\ UNCHANGED << hubVars, pollVars, refreshRequested, entVars, ent,
                    writeLog, device, reconcile >>

\* A number entity is read while the snapshot holds `value` for it and is
\* set to the same displayed figure (number.py:72-98); the entered figure
\* is carried in tenths.
number_read_and_set ==
    /\ fin = NoInput
    /\ \E entity \in DOMAIN NumberEntities : \E value \in { 0, 30, 135, 7200 } :
         LET is_time_value == NumberEntities[entity].is_time_value IN
         /\ fin' = [ kind |-> "number", entity |-> entity, value |-> value,
                     entered |-> value * 10 ]
         /\ fout' = [ native_value |-> number_scaled(value, is_time_value),
                      register_value |->
                          number_register_value(value * 10, is_time_value) ]
    /\ UNCHANGED << hubVars, pollVars, refreshRequested, entVars, ent,
                    writeLog, device, reconcile >>

\* sensor.py:606-610: the raw value as a temperature in tenths of a degree.
temp_value(value) == IF value > 32767 THEN value - 65536 ELSE value

\* sensor.py:615  temp_value < -50 or temp_value > 150
TempOutOfRange(temp) == temp < -500 \/ temp > 1500

\* A threshold that also rejects a change of exactly 2 degrees per second.
RateExceededInclusive(change, time_diff) == change >= 2 * time_diff

\* sensor.py:624-626: abs(temp_value - last_temp) / time_diff > 2.0, with
\* the change in tenths of a degree and time_diff in tenths of a second.
RateExceeded(change, time_diff) == change > 2 * time_diff

\* A validation that stamps the time of every reading, rejected or not.
validate_temperature_restamping(sensor, value, current_time) ==
    LET temp == temp_value(value)
        rejected ==
            \/ TempOutOfRange(temp)
            \/ /\ sensor.last_temp # None
               /\ sensor.last_time # None
               /\ current_time - sensor.last_time[1] > 0
               /\ RateExceeded(Abs(temp - sensor.last_temp[1]),
                               current_time - sensor.last_time[1])
    IN  IF rejected
        THEN [ result |-> None,
               sensor |-> [ sensor EXCEPT !.last_time = Some(current_time) ] ]
        ELSE [ result |-> Some(temp),
               sensor |-> [ last_temp |-> Some(temp),
                            last_time |-> Some(current_time) ] ]

\* sensor.py:595-643  _validate_temperature: the result and the sensor's
\* _last_temp and _last_time afterwards.
validate_temperature(sensor, value, current_time) ==
    LET temp == temp_value(value)
        rejected ==
            \/ TempOutOfRange(temp)
            \/ /\ sensor.last_temp # None
               /\ sensor.last_time # None
               /\ current_time - sensor.last_time[1] > 0
               /\ RateExceeded(Abs(temp - sensor.last_temp[1]),
                               current_time - sensor.last_time[1])
    IN  IF rejected
        THEN [ result |-> None, sensor |-> sensor ]
        ELSE [ result |-> Some(temp),
               sensor |-> [ last_temp |-> Some(temp),
                            last_time |-> Some(current_time) ] ]

\* TemperatureSensorBase.__init__ (sensor.py:585-593)
NewTemperatureSensor == [ last_temp |-> None, last_time |-> None ]

\* Time between two readings of a sensor, in tenths of a second: the same
\* clock value, a tenth, a second and a half, ten seconds.
TimeSteps == { 0, 1, 15, 100 }

\* sensor.py:659-668: the battery temperature sensor is read at
\* current_time = time.time() while the snapshot holds `value`.  The input
\* records the sensor as it was, the output the sensor as it is left.
temperature_sensor_read ==
    /\ fin.kind \in { "none", "temperature" }
    /\ \E value \in RawValues : \E step \in TimeSteps :
         LET before == IF fin.kind = "none" THEN NewTemperatureSensor
                       ELSE fout.sensor
             current_time == IF fin.kind = "none" THEN 0
                             ELSE fin.current_time + step
             n == IF fin.kind = "none" THEN 1 ELSE fin.n + 1
         IN  /\ n <= MaxReadings
             /\ fin' = [ kind |-> "temperature", value |-> value,
                         current_time |-> current_time, n |-> n,
                         sensor |-> before ]
             /\ fout' = validate_temperature(before, value, current_time)
    /\ UNCHANGED << hubVars, pollVars, refreshRequested, entVars, ent,
                    writeLog, device, reconcile >>

\* ------------------------------------------------------------ host name
\* Characters str.strip() removes, among the code points a byte can hold.
Whitespace == { 9, 10, 11, 12, 13, 28, 29, 30, 31, 32, 133, 160 }

\* str.strip()
RECURSIVE strip(_)
strip(chars) ==
    IF chars = << >> THEN << >>
    ELSE IF chars[1] \in Whitespace THEN strip(Tail(chars))
    ELSE IF chars[Len(chars)] \in Whitespace
         THEN strip(SubSeq(chars, 1, Len(chars) - 1))
    ELSE chars

\* text.py:122-125  get_bytes: low byte first, then high byte
get_bytes(reg_value) ==
    << BitAnd(reg_value, 255), BitAnd(ShiftRight(reg_value, 8), 255) >>

\* [c for c in chars if c != 0]
RECURSIVE without_nulls(_)
without_nulls(chars) ==
    IF chars = << >> THEN << >>
    ELSE IF chars[1] # 0 THEN << chars[1] >> \o without_nulls(Tail(chars))
    ELSE without_nulls(Tail(chars))

\* text.py:116-134: the name decoded from the four name registers, as the
\* sequence of its characters' code points.
name_native_value(reg_0, reg_1, reg_2, reg_3) ==
    LET chars == get_bytes(reg_0) \o get_bytes(reg_1) \o get_bytes(reg_2)
                 \o get_bytes(reg_3)
    IN  strip(without_nulls(chars))

\* Name register contents: two nulls, "AB", "A" then null, null then "C",
\* two spaces, "A" then space.
NameRegisterValues == { 0, 16961, 65, 17152, 8224, 8257 }

\* text.py:105-135: the host-name entity is read while the snapshot holds
\* all four name registers.
text_native_value_read ==
    /\ fin = NoInput
    /\ \E regs \in [ 1..4 -> NameRegisterValues ] :
         /\ fin' = [ kind |-> "name", regs |-> regs ]
         /\ fout' = Some(name_native_value(regs[1], regs[2], regs[3],
                                           regs[4]))
    /\ UNCHANGED << hubVars, pollVars, refreshRequested, entVars, ent,
                    writeLog, device, reconcile >>

\* ---------------------------------------------------------- enumerations
\* const.py:132-194: the codes each table has a label for.  A label is
\* carried as << table, code >>, the text f"Unknown ({code})" as
\* << "Unknown", code >>.
CHARGE_STAGES == { 0, 3, 4, 5, 6, 7, 10, 18 }
INTERNAL_STATES == { 0, 1, 2, 3, 4, 6 }
DEVICE_TYPES == { 150, 200, 250, 251 }
REST_REASONS == (1..19) \cup { 22 } \cup (25..35)

\* dict.get(code, f"Unknown ({code})")
LabelOrUnknown(table, keys, code) ==
    IF code \in keys THEN << table, code >> ELSE << "Unknown", code >>

\* sensor.py:452-454  ChargeStageSensor
charge_stage_label(raw_value) ==
    LabelOrUnknown("CHARGE_STAGES", CHARGE_STAGES,
                   BitAnd(ShiftRight(raw_value, 8), 255))

\* sensor.py:481-482
internal_state_label(raw_value) ==
    LabelOrUnknown("INTERNAL_STATES", INTERNAL_STATES, BitAnd(raw_value, 255))

\* sensor.py:471-505  InternalStateSensor: the state, followed by the rest
\* reason when the device is resting and the reason register was read.
internal_state_native_value(raw_value, rest_reason_value) ==
    LET internal_state == internal_state_label(raw_value) IN
    IF internal_state = << "INTERNAL_STATES", 0 >> /\ rest_reason_value # None
    THEN LET extracted_value == BitAnd(rest_reason_value[1], 255) IN
         IF 1 <= extracted_value /\ extracted_value <= 35
         THEN << internal_state, ": ",
                 IF extracted_value \in REST_REASONS
                 THEN << "REST_REASONS", extracted_value >>
                 ELSE "Reason Unknown" >>
         ELSE << internal_state, ": ", "Reason Unknown" >>
    ELSE internal_state

\* sensor.py:522-530  DeviceTypeSensor
device_type_label(value) ==
    LabelOrUnknown("DEVICE_TYPES", DEVICE_TYPES, BitAnd(value, 255))

\* sensor.py:547-580  RestReasonSensor: the code as a decimal string while
\* the device rests, the whole raw value when the code is out of 1..35.
rest_reason_native_value(raw_value, value) ==
    LET internal_state == internal_state_label(raw_value) IN
    IF internal_state = << "INTERNAL_STATES", 0 >>
    THEN LET extracted_value == BitAnd(value, 255) IN
         IF 1 <= extracted_value /\ extracted_value <= 35
         THEN str(extracted_value)
         ELSE str(value)
    ELSE "Not resting"

\* select.py:203-214  Aux1FunctionSelector.current_option
aux1_current_option(value) ==
    LET aux1_function_value == BitAnd(value, 7) IN
    IF aux1_function_value < Len(AUX1_FUNCTIONS)
    THEN << "AUX1_FUNCTIONS", aux1_function_value >>
    ELSE << "Unknown", aux1_function_value >>

\* The entities that show an enumeration.
EnumEntities ==
    { "ChargeStageSensor", "InternalStateSensor", "DeviceTypeSensor",
      "RestReasonSensor", "MPPTModeSelector", "Aux1FunctionSelector" }

\* Raw values of the register an enumeration is decoded from: codes with
\* and without a label, in either byte.
EnumRawValues == { 0, 2, 3, 5, 150, 1283, 2048, 2053, 65535 }

\* Raw values of the rest-reason register: labelled codes, the unlabelled
\* codes 20 and 40, and a labelled code under a non-zero high byte.
RestReasonValues == { 1, 20, 35, 40, 261 }

\* An entity that shows an enumeration is read while the snapshot holds
\* `value` for its register (and `rest` for the rest-reason register).
enumeration_read ==
    /\ fin = NoInput
    /\ \E entity \in EnumEntities : \E value \in EnumRawValues :
       \E rest \in RestReasonValues :
         /\ fin' = [ kind |-> "enum", entity |-> entity, value |-> value,
                     rest |-> rest ]
         /\ fout' =
              CASE entity = "ChargeStageSensor" -> charge_stage_label(value)
                [] entity = "InternalStateSensor" ->
                       internal_state_native_value(value, Some(rest))
                [] entity = "DeviceTypeSensor" -> device_type_label(value)
                [] entity = "RestReasonSensor" ->
                       rest_reason_native_value(value, rest)
                [] entity = "MPPTModeSelector" -> mppt_mode_label(value)
                [] entity = "Aux1FunctionSelector" ->
                       aux1_current_option(value)
    /\ UNCHANGED << hubVars, pollVars, refreshRequested, entVars, ent,
                    writeLog, device, reconcile >>

\* ------------------------------------------------------------ config flow
\* Outcomes of the test client's connect() and of its one read of the
\* verification register (config_flow.py:168-175).
TestConnectOutcomes == { "True", "False", "raise" }
TestReadOutcomes == { "ok", "error", "None", "raise" }

\* A connection test that looks at the connect only.
connection_test_connect_only(connected, result) ==
    CASE connected = "raise" -> "unknown"
      [] connected = "False" -> "cannot_connect"
      [] OTHER -> "none"

\* config_flow.py:166-182: errors["base"] after the connection test, or
\* "none".  The read is issued only after a successful connect; a result
\* of None makes result.isError() raise, which the except branch catches.
connection_test(connected, result) ==
    CASE connected = "raise" -> "unknown"
      [] connected = "False" -> "cannot_connect"
      [] result \in { "raise", "None" } -> "unknown"
      [] result = "error" -> "cannot_read"
      [] OTHER -> "none"

\* config_flow.py:113-247  async_step_user: what the step returns.
async_step_user_result(user_input, discovered, connected, result) ==
    CASE user_input = "none" -> [ type |-> "form", errors |-> "none" ]
      [] user_input = "no_host" /\ ~discovered ->
             [ type |-> "form", errors |-> "missing_host" ]
      [] user_input = "duplicate" ->
             [ type |-> "abort", errors |-> "already_configured" ]
      [] OTHER ->
             LET errors == connection_test(connected, result) IN
             IF errors = "none"
             THEN [ type |-> "create_entry", errors |-> "none" ]
             ELSE [ type |-> "form", errors |-> errors ]

\* What the user submits: nothing yet (the form is first shown), a form
\* without a host, a host that is already configured, or a new host.
UserInputs == { "none", "no_host", "duplicate", "host" }

\* The user step of the config flow runs once.
async_step_user ==
    /\ fin = NoInput
    /\ \E user_input \in UserInputs : \E discovered \in BOOLEAN :
       \E connected \in TestConnectOutcomes : \E result \in TestReadOutcomes :
         /\ fin' = [ kind |-> "config", user_input |-> user_input,
                     discovered |-> discovered, connected |-> connected,
                     result |-> result ]
         /\ fout' = async_step_user_result(user_input, discovered,
                                           connected, result)
    /\ UNCHANGED << hubVars, pollVars, refreshRequested, entVars, ent,
                    writeLog, device, reconcile >>

\* =========================================================== specification
Init ==
    /\ lock = "free"
    /\ sockOpen \in BOOLEAN
    /\ call = [ c \in Callers |-> NoCall ]
    /\ cpc = "idle"
    /\ gi = 0
    /\ ri = 0
    /\ data = EmptyMap
    /\ result_data = EmptyMap
    /\ failed_registers = << >>
    /\ unavailable_entities = EmptyMap
    /\ coordData = NoSnapshot
    /\ prevData = NoSnapshot
    /\ lastUpdate = "none"
    /\ cycles = 0
    /\ refreshRequested = FALSE
    /\ epc = "idle"
    /\ writes = 0
    /\ probeLog = << >>
    /\ okReads = {}
    /\ failReads = {}
    /\ groupLog = << >>
    /\ probeOk = FALSE
    /\ reconnects = 0
    /\ connectFailed = FALSE
    /\ device = "flaky"
    /\ reconcile = "none"
    /\ ent = NoAction
    /\ writeLog = << >>
    /\ fin = NoInput
    /\ fout = None

Next ==
    \/ \E c \in Callers : HubStep(c)
    \/ PollStep
    \/ EntityStep

Spec == Init /\ [][Next]_vars

\* The executor threads keep running: a hub method that can take a step
\* eventually takes it; the event loop resumes a coroutine whose awaited
\* job has returned and starts the periodic poll.  Nothing obliges a user
\* to set an entity.
FairSpec ==
    /\ Spec
    /\ \A c \in Callers : WF_vars(HubStep(c))
    /\ WF_vars(PollStep)
    /\ WF_vars(async_set_value_result)

\* The entity layer alone: one snapshot, no poll running, and the entity
\* actions with the hub writes they issue.
EntityInit ==
    /\ lock = "free"
    /\ sockOpen \in BOOLEAN
    /\ call = [ c \in Callers |-> NoCall ]
    /\ cpc = "idle"
    /\ gi = 0
    /\ ri = 0
    /\ data = EmptyMap
    /\ result_data = EmptyMap
    /\ failed_registers = << >>
    /\ unavailable_entities = EmptyMap
    /\ coordData \in EntitySnapshots
    /\ prevData = NoSnapshot
    /\ lastUpdate = "none"
    /\ cycles = 0
    /\ refreshRequested = FALSE
    /\ epc = "idle"
    /\ writes = 0
    /\ probeLog = << >>
    /\ okReads = {}
    /\ failReads = {}
    /\ groupLog = << >>
    /\ probeOk = FALSE
    /\ reconnects = 0
    /\ connectFailed = FALSE
    /\ device = "flaky"
    /\ reconcile = "none"
    /\ ent = NoAction
    /\ writeLog = << >>
    /\ fin = NoInput
    /\ fout = None

EntityNext ==
    \/ lock_acquire("entity")
    \/ write_register("entity")
    \/ async_set_value_write
    \/ async_set_value_result
    \/ async_press
    \/ async_press_result
    \/ aux_async_select_option
    \/ aux_force_eeprom_update
    \/ aux_request_refresh
    \/ text_async_set_value
    \/ text_write_returned
    \/ text_eeprom_returned

EntitySpec == EntityInit /\ [][EntityNext]_vars

\* The value computations alone, each applied to inputs drawn from the
\* sets above.
ValueInit ==
    /\ lock = "free"
    /\ sockOpen = TRUE
    /\ call = [ c \in Callers |-> NoCall ]
    /\ cpc = "idle"
    /\ gi = 0
    /\ ri = 0
    /\ data = EmptyMap
    /\ result_data = EmptyMap
    /\ failed_registers = << >>
    /\ unavailable_entities = EmptyMap
    /\ coordData = NoSnapshot
    /\ prevData = NoSnapshot
    /\ lastUpdate = "none"
    /\ cycles = 0
    /\ refreshRequested = FALSE
    /\ epc = "idle"
    /\ writes = 0
    /\ probeLog = << >>
    /\ okReads = {}
    /\ failReads = {}
    /\ groupLog = << >>
    /\ probeOk = FALSE
    /\ reconnects = 0
    /\ connectFailed = FALSE
    /\ device = "flaky"
    /\ reconcile = "none"
    /\ ent = NoAction
    /\ writeLog = << >>
    /\ fin = NoInput
    /\ fout = None

ValueNext ==
    \/ current_sensor_read
    \/ number_read_and_set
    \/ temperature_sensor_read
    \/ text_native_value_read
    \/ enumeration_read
    \/ async_step_user

ValueSpec == ValueInit /\ [][ValueNext]_vars

\* The integration against a device that keeps responding: every client
\* call succeeds, so the branches that handle a failure are never taken
\* and the steps below are the ones that remain.
RespondingInit ==
    /\ lock = "free"
    /\ sockOpen \in BOOLEAN
    /\ call = [ c \in Callers |-> NoCall ]
    /\ cpc = "idle"
    /\ gi = 0
    /\ ri = 0
    /\ data = EmptyMap
    /\ result_data = EmptyMap
    /\ failed_registers = << >>
    /\ unavailable_entities = EmptyMap
    /\ coordData = NoSnapshot
    /\ prevData = NoSnapshot
    /\ lastUpdate = "none"
    /\ cycles = 0
    /\ refreshRequested = FALSE
    /\ epc = "idle"
    /\ writes = 0
    /\ probeLog = << >>
    /\ okReads = {}
    /\ failReads = {}
    /\ groupLog = << >>
    /\ probeOk = FALSE
    /\ reconnects = 0
    /\ connectFailed = FALSE
    /\ device = "responding"
    /\ reconcile = "none"
    /\ ent = NoAction
    /\ writeLog = << >>
    /\ fin = NoInput
    /\ fout = None

RespondingHubStep(c) ==
    \/ lock_acquire(c)
    \/ is_still_connected(c)
    \/ connect(c)
    \/ write_register(c)
    \/ read_holding_registers_attempt(c)
    \/ read_holding_registers_io(c)

RespondingPollStep ==
    \/ async_update_data_start
    \/ async_update_data_liveness
    \/ async_update_data_reconnect
    \/ async_update_data_probe1
    \/ read_register_group

RespondingNext ==
    \/ \E c \in Callers : RespondingHubStep(c)
    \/ RespondingPollStep
    \/ EntityStep

\* Fair scheduling: executor threads run, the event loop resumes a
\* coroutine whose awaited job returned and starts an update that is due.
\* Nothing obliges a user to set an entity.
RespondingSpec ==
    /\ RespondingInit
    /\ [][RespondingNext]_vars
    /\ \A c \in Callers : WF_vars(RespondingHubStep(c))
    /\ WF_vars(RespondingPollStep)
    /\ WF_vars(async_set_value_result)

\* ================================================================== claims

\* The caller is between the start and the end of a hub operation: it holds
\* the lock and has not yet returned.
InOperation(c) == call[c].pc \in { "in", "io", "nested_wait", "nested_in" }

\* C1: at most one Modbus operation is in progress on the hub's client at
\* any time, for every interleaving of the poll and entity writes: whoever
\* is inside an operation holds the lock and nobody else is inside one.
C1_OneOperationAtATime ==
    \A c \in Callers :
        InOperation(c) =>
            /\ lock = c
            /\ \A o \in Callers \ { c } : ~InOperation(o)

\* C1 witness: the poll is in the retry loop of a register read, after a
\* failed attempt, while an entity write waits for the lock.
C1_Witness ==
    /\ call["poll"].op = "read"
    /\ call["poll"].pc = "io"
    /\ call["poll"].attempt >= 1
    /\ call["entity"].op = "write"
    /\ call["entity"].pc = "wait"

\* C2: every register read eventually returns and leaves the lock free,
\* whatever the socket state and the outcomes of its attempts.
C2_ReadReturns ==
    \A c \in Callers :
        (call[c].op = "read" /\ call[c].pc = "wait")
            ~> (call[c].op = "read" /\ call[c].pc = "done" /\ lock # c)

\* C3: a register read makes at most 5 attempts against the client; a good
\* result ends the read at once (it is the last client call, and every
\* attempt before it failed); after five failed attempts the read returns
\* None; it never raises.
C3_ReadAttempts ==
    \A c \in Callers :
        call[c].op = "read" =>
            /\ call[c].ios <= 5
            /\ call[c].pc = "done" =>
                 /\ call[c].res \in { "ok", "None" }
                 /\ call[c].res = "ok" => call[c].ios = call[c].attempt + 1
                 /\ call[c].res = "None" =>
                        call[c].ios = 5 /\ call[c].attempt = 5

\* C3 witness: a read that used up its five attempts and returned None.
C3_Witness ==
    \E c \in Callers :
        /\ call[c].op = "read"
        /\ call[c].pc = "done"
        /\ call[c].res = "None"
        /\ call[c].ios = 5

\* C4: a register write makes exactly one client call under the lock; it
\* returns the client's result or raises the client's exception, never
\* retries, and holds the lock no longer once it has returned or raised.
C4_WriteSingleAttempt ==
    \A c \in Callers :
        call[c].op = "write" =>
            /\ call[c].ios <= 1
            /\ call[c].pc = "in" => (lock = c /\ call[c].ios = 0)
            /\ call[c].pc = "done" =>
                 /\ call[c].ios = 1
                 /\ call[c].res = call[c].last
                 /\ lock # c

\* C4 witness: a write whose single client call raised, back at the caller
\* with the lock released.
C4_Witness ==
    /\ call["entity"].op = "write"
    /\ call["entity"].pc = "done"
    /\ call["entity"].res = "raise"
    /\ call["entity"].ios = 1
    /\ lock = "free"

\* The hub calls of the probe phase: the log without the liveness check
\* and the reconnect that may follow it.
ProbeCalls ==
    LET k == IF Len(probeLog) >= 2 /\ probeLog[2].op = "connect" THEN 2
             ELSE IF Len(probeLog) >= 1 THEN 1 ELSE 0
    IN  SubSeq(probeLog, k + 1, Len(probeLog))

\* The probe phase at its longest: identity register, second canary,
\* disconnect, reconnect, identity register again.
ProbePlan ==
    << [ op |-> "read", addr |-> REGISTER_MAP.UNIT_ID ],
       [ op |-> "read", addr |-> REGISTER_MAP.DISP_AVG_VBATT ],
       [ op |-> "disconnect", addr |-> 0 ],
       [ op |-> "connect", addr |-> 0 ],
       [ op |-> "read", addr |-> REGISTER_MAP.UNIT_ID ] >>

\* The probe calls follow the plan, each step taken only after the reads
\* before it failed, with at most one disconnect.
ProbeOrder ==
    LET p == ProbeCalls
        n == Len(ProbeCalls)
    IN  /\ n <= Len(ProbePlan)
        /\ \A i \in 1..n : /\ p[i].op = ProbePlan[i].op
                           /\ p[i].addr = ProbePlan[i].addr
        /\ n >= 2 => p[1].res = "None"
        /\ n >= 3 => p[2].res = "None"
        /\ reconnects <= 1
        /\ reconnects = Cardinality({ i \in 1..n : p[i].op = "disconnect" })
        /\ (n = 5 /\ p[5].res = "None") => lastUpdate = "failed"

\* C5 (as stated): the probe reads the identity register, the second canary
\* only if that fails, and only if both fail does one disconnect, reconnect
\* and re-probe; the cycle is aborted as failed exactly when that re-probe
\* fails; at most one disconnect+reconnect per probe phase.
C5_AbortOnlyWhenReprobeFails ==
    /\ ProbeOrder
    /\ (lastUpdate = "failed" /\ Len(ProbeCalls) >= 1) =>
           (Len(ProbeCalls) = 5 /\ ProbeCalls[5].res = "None")

\* A cycle that failed in its probe phase failed on the re-probe or on a
\* reconnect that raised.
ProbeAbort ==
    (lastUpdate = "failed" /\ Len(ProbeCalls) >= 1) =>
        \/ Len(ProbeCalls) = 5 /\ ProbeCalls[5].res = "None"
        \/ Len(ProbeCalls) = 4 /\ ProbeCalls[4].res = "raise"

\* A good probe read, and nothing else, takes the cycle to the group reads.
ProbeProceeds ==
    /\ (probeOk' /\ ~probeOk) =>
           /\ cpc \in { "probe1", "probe2", "reprobe" }
           /\ call["poll"].op = "read"
           /\ call["poll"].res = "ok"
           /\ cpc' = "groups"
    /\ (cpc \in { "probe1", "probe2", "reprobe" } /\ cpc' # cpc
          /\ call["poll"].res = "ok") => (cpc' = "groups" /\ probeOk')

\* C5 (amended): the probe order is as stated and at most one
\* disconnect+reconnect happens per probe phase; the cycle is aborted as
\* failed in the probe phase exactly when the re-probe fails or the
\* reconnect before it raises, and proceeds to the group reads exactly
\* after a good probe read.
C5_ProbeSequence ==
    /\ [](ProbeOrder /\ ProbeAbort)
    /\ [][ProbeProceeds]_vars

\* C5 witness: both canaries failed, the hub was disconnected and
\* reconnected once, the re-probe failed too and the cycle was aborted.
C5_Witness ==
    /\ lastUpdate = "failed"
    /\ Len(ProbeCalls) = 5
    /\ ProbeCalls[5].res = "None"
    /\ reconnects = 1

\* C6: when the socket is closed at the start of a cycle and the reconnect
\* fails (returns False or raises), the cycle is reported failed and no
\* probe or group read is issued in it.
C6_FailedReconnectAborts ==
    connectFailed =>
        /\ lastUpdate = "failed"
        /\ \A i \in 1..Len(probeLog) : probeLog[i].op # "read"

\* Every address of every configured group.
AllGroupRegs ==
    UNION { SeqToSet(REGISTER_GROUPS[GroupOrder[i]]) :
              i \in 1..Len(GroupOrder) }

\* The snapshot holds a value for the address.
InSnapshot(snap, a) ==
    \E g \in DOMAIN snap.data : a \in DOMAIN snap.data[g]

\* C7: once the probe of a cycle has succeeded the cycle never reports
\* failure; every configured group is attempted whatever failed in earlier
\* groups, and the cycle that ends publishes a snapshot.
C7_GroupFailuresDoNotFailCycle ==
    /\ probeOk => lastUpdate # "failed"
    /\ cpc = "groups" =>
         /\ probeOk
         /\ \A i \in 1..(gi - 1) :
               SeqToSet(REGISTER_GROUPS[GroupOrder[i]])
                   \subseteq (okReads \cup failReads)
    /\ (probeOk /\ cpc = "idle") =>
         /\ lastUpdate = "success"
         /\ coordData.valid
         /\ okReads \cup failReads = AllGroupRegs
         /\ okReads \cap failReads = {}

\* C7 witness: every register of the first group failed, the next group
\* was still read, and the cycle published its snapshot.
C7_Witness ==
    /\ lastUpdate = "success"
    /\ SeqToSet(REGISTER_GROUPS["status"]) \subseteq failReads
    /\ REGISTER_MAP.MPPT_MODE \in okReads
    /\ coordData.valid

\* C8: in a published snapshot an address has a value exactly when its
\* read succeeded in the cycle that produced the snapshot, and the value is
\* the one read; nothing is carried over from an earlier snapshot.
C8_SnapshotHoldsThisCyclesReads ==
    lastUpdate = "success" =>
        /\ \A a \in AllGroupRegs :
              InSnapshot(coordData, a) <=> a \in okReads
        /\ \A g \in DOMAIN coordData.data :
              \A a \in DOMAIN coordData.data[g] :
                  /\ a \in okReads
                  /\ a \in SeqToSet(REGISTER_GROUPS[g])
                  /\ coordData.data[g][a] = DeviceValue(a)

\* C8 witness: a published snapshot lacks an address whose read failed in
\* this cycle although the snapshot it replaced held a value for it.
C8_Witness ==
    /\ lastUpdate = "success"
    /\ \E a \in failReads :
          /\ InSnapshot(prevData, a)
          /\ ~InSnapshot(coordData, a)

\* C9: for an address absent from the current snapshot every derived
\* entity value (sensor and number values, the current option of every
\* select) is None, never a stale or default value.  Stated for published
\* snapshots, the only ones entities are evaluated against.
C9_AbsentAddressIsUnknown ==
    coordData.valid =>
        /\ \A a \in AllGroupRegs :
              ~InSnapshot(coordData, a) =>
                  /\ get_register_value(a) = None
                  /\ number_native_value(a, FALSE) = None
                  /\ number_native_value(a, TRUE) = None
        /\ ~InSnapshot(coordData, REGISTER_MAP.MPPT_MODE) =>
              MPPTModeSelector_current_option = None
        /\ ~InSnapshot(coordData, REGISTER_MAP.COMBO_CHARGE_STAGE) =>
              ChargeModeSelector_current_option = None

\* C10: after a cycle that publishes a snapshot, the availability mapping
\* records every address whose read failed in that cycle and no address
\* whose read succeeded, also when other registers of the same group were
\* read successfully.
C10_AvailabilityRecordsFailures ==
    lastUpdate = "success" =>
        DOMAIN coordData.availability = { str(a) : a \in failReads }

\* An entity action has ended after at least one of its register writes
\* failed (error response, no result, or the hub raised).
ActionEndedWithFailedWrite ==
    /\ ent.kind # "none"
    /\ ent.outcome # "running"
    /\ \E i \in 1..Len(writeLog) : WriteFailed(writeLog[i].res)

\* C11: when a register write issued by an entity action (button press,
\* select option, number set, text set) fails, the action ends with an
\* error reported to the host instead of completing normally.
C11_FailedWriteFailsAction ==
    ActionEndedWithFailedWrite => ent.outcome = "error"

\* An AUX function select has issued its write of the combined register.
AuxWriteIssued ==
    /\ ent.kind = "aux"
    /\ Len(writeLog) >= 1
    /\ writeLog[1].addr = REGISTER_MAP.AUX_1_AND_2_FUNCTION

C13_NoAuxValueNoWrite ==
    (ent.kind = "aux" /\ aux_current_value = None) =>
        /\ writeLog = << >>
        /\ writes = 0
        /\ call["entity"] = NoCall
        /\ ~refreshRequested

\* C13 witness: an AUX select has run to its end on a published snapshot
\* that lacks the combined register.
C13_Witness ==
    /\ ent.kind = "aux"
    /\ ent.outcome = "completed"
    /\ coordData.valid
    /\ aux_current_value = None
    /\ writeLog = << >>

\* The writes the claim prescribes for a host name: the name cut or
\* space-padded to 8 characters, register i holding character 2i in its
\* low byte and character 2i+1 in its high byte, then the commit flag.
PrescribedNameWrites(value) ==
    LET name == [ i \in 1..8 |-> IF i <= Len(value) THEN value[i] ELSE 32 ]
    IN  [ k \in 1..5 |->
            IF k <= 4
            THEN [ addr |-> 4209 + k,
                   val |-> name[2 * k - 1] + 256 * name[2 * k] ]
            ELSE [ addr |-> 4160, val |-> 4 ] ]

AllWritesGood == \A i \in 1..Len(writeLog) : writeLog[i].res = "ok"

\* C14: setting the host name issues, in order, the four name-register
\* writes of the padded or truncated 8-character name and then the one
\* write of the EEPROM-commit flag, each only after the one before it
\* succeeded, and no other write; when every write succeeded the handler
\* ends with all five issued and a refresh requested, and a refresh is
\* requested in no other case.
C14_HostNameWrites ==
    ent.kind = "text" =>
        LET prescribed == PrescribedNameWrites(ent.arg) IN
        /\ Len(writeLog) \in 1..5
        /\ \A i \in 1..Len(writeLog) :
              /\ writeLog[i].addr = prescribed[i].addr
              /\ writeLog[i].val = prescribed[i].val
        /\ \A i \in 1..(Len(writeLog) - 1) : writeLog[i].res = "ok"
        /\ (ent.outcome = "completed" /\ AllWritesGood) =>
              (Len(writeLog) = 5 /\ refreshRequested)
        /\ refreshRequested =>
              (Len(writeLog) = 5 /\ AllWritesGood
               /\ ent.outcome = "completed")

\* C14 witness: a name longer than 8 characters was set, all five writes
\* succeeded and the refresh is requested.
C14_Witness ==
    /\ ent.kind = "text"
    /\ Len(ent.arg) > 8
    /\ ent.outcome = "completed"
    /\ Len(writeLog) = 5
    /\ AllWritesGood
    /\ refreshRequested

\* An AUX2 select of function index 3 has issued its write on a snapshot
\* whose combined AUX register is 0b000100001.
Aux2Index3On33 ==
    /\ AuxWriteIssued
    /\ ent.arg = << "AUX2", 3 >>
    /\ aux_current_value = Some(33)

C16_BackoffAfterEveryFailure ==
    \A c \in Callers :
        ( /\ call[c].op = "read"
          /\ call[c].pc = "in"
          /\ call[c].attempt \in 1..(max_retries - 1) )
        => call[c].slept = 2 * call[c].attempt

\* A raw 16-bit value read as a signed quantity in tenths.
SignedTenths(value) == IF value > 32767 THEN value - 65536 ELSE value

\* C17: the temperature sensor rejects a new in-range reading exactly when
\* the time since the last accepted reading is positive and the change
\* from that reading, divided by that time, is more than 2 degrees per
\* second; otherwise it accepts the reading, which becomes the last
\* accepted one.  A rejected reading leaves the last accepted one as it
\* was.
C17_RateOfChangeRule ==
    fin.kind = "temperature" =>
        LET temp == SignedTenths(fin.value)
            last == fin.sensor
            elapsed == fin.current_time - last.last_time[1]
            tooFast == /\ last.last_temp # None
                       /\ elapsed > 0
                       /\ Abs(temp - last.last_temp[1]) > 2 * elapsed
        IN  (temp >= -500 /\ temp <= 1500) =>
                IF tooFast
                THEN fout.result = None /\ fout.sensor = last
                ELSE /\ fout.result = Some(temp)
                     /\ fout.sensor.last_temp = Some(temp)
                     /\ fout.sensor.last_time = Some(fin.current_time)

\* C17 witness: after 25.0 degrees accepted at t = 0 a reading of 40.0
\* degrees at t = 0.1 s has been rejected.
C17_Witness ==
    /\ fin.kind = "temperature"
    /\ fin.sensor.last_temp = Some(250)
    /\ fin.sensor.last_time = Some(0)
    /\ fin.value = 400
    /\ fin.current_time = 1
    /\ fout.result = None

\* C18: the battery-current and PV-input-current sensors read a raw value
\* v > 32767 as (v - 65536) / 10 A and a raw value v <= 32767 as v / 10 A,
\* and report it when it is within the sensor's valid range.
C18_SignedCurrent ==
    fin.kind = "current" =>
        LET signed == SignedTenths(fin.value) IN
        Abs(signed) <= CurrentSensors[fin.sensor].limit * 10
            => fout = Some(signed)

\* C19: the time-valued numbers (Absorb Time, EQ Time, EQ Interval) report
\* the raw register value as it is and write the entered value unscaled;
\* the voltage and current setpoints report raw / 10 and write the entered
\* value times 10.
C19_NumberScaling ==
    fin.kind = "number" =>
        IF fin.entity \in { "AbsorbTime", "EqualizeTime",
                            "EqualizeIntervalDays" }
        THEN /\ fout.native_value = << fin.value, 1 >>
             /\ fout.register_value * 10 = fin.entered
        ELSE /\ fout.native_value = << fin.value, 10 >>
             /\ fout.register_value = fin.entered

\* C15: every successful setpoint write is followed by a refresh request
\* and, while the device keeps responding and scheduling is fair,
\* eventually by the publication of a snapshot of a poll cycle that
\* started after the write completed (so all of its register reads
\* started after it), also when the write was issued in the middle of a
\* poll.
C15_WriteReachesSnapshot ==
    /\ [][(reconcile' = "written" /\ reconcile # "written")
            => refreshRequested']_vars
    /\ (reconcile = "written") ~> (reconcile = "published")

\* C15 witness: a write issued while a poll was reading its groups has
\* been followed by the snapshot of a later cycle.
C15_Witness ==
    /\ reconcile = "published"
    /\ cycles > MaxCycles
    /\ lastUpdate = "success"

\* The bytes of the four name registers, low byte first, in ascending
\* register order.
NameBytes(regs) ==
    [ i \in 1..8 |-> IF i % 2 = 1 THEN regs[(i + 1) \div 2] % 256
                     ELSE regs[i \div 2] \div 256 ]

\* The bytes that come before the first null byte.
BeforeFirstNull(bytes) ==
    LET nulls == { i \in 1..Len(bytes) : bytes[i] = 0 }
        n == IF nulls = {} THEN Len(bytes) ELSE Min(nulls) - 1
    IN  SubSeq(bytes, 1, n)

\* C21: the decoded device name is made of the characters that precede the
\* first null byte, two per register with the low byte first: it is a
\* contiguous part of them, and no character that follows a null byte is
\* in it.
C21_NameStopsAtFirstNull ==
    fin.kind = "name" =>
        LET prefix == BeforeFirstNull(NameBytes(fin.regs)) IN
        \E a \in 1..(Len(prefix) + 1) : \E b \in 0..Len(prefix) :
            fout = Some(SubSeq(prefix, a, b))

\* C22: every enumeration shown to the user renders a code that its table
\* has no label for as "Unknown (<code>)": the charge stage (high byte of
\* 4120), the internal state (its low byte), the device type, the MPPT
\* mode, the AUX function, and the rest reason while the device rests.
C22_UnknownCodesAreLabelled ==
    fin.kind = "enum" =>
        LET v == fin.value
            unknown(code) == << "Unknown", code >>
        IN  CASE fin.entity = "ChargeStageSensor" ->
                   ((v \div 256) \notin CHARGE_STAGES
                        => fout = unknown(v \div 256))
              [] fin.entity = "InternalStateSensor" ->
                   ((v % 256) \notin INTERNAL_STATES
                        => fout = unknown(v % 256))
              [] fin.entity = "DeviceTypeSensor" ->
                   ((v % 256) \notin DEVICE_TYPES
                        => fout = unknown(v % 256))
              [] fin.entity = "MPPTModeSelector" ->
                   (v \notin { 1, 3, 5, 7, 9, 11, 13, 15 }
                        => fout = unknown(v))
              [] fin.entity = "Aux1FunctionSelector" ->
                   ((v % 8) \notin 0..7 => fout = unknown(v % 8))
              [] fin.entity = "RestReasonSensor" ->
                   ((v % 256 = 0 /\ (fin.rest % 256) \notin REST_REASONS)
                        => fout = unknown(fin.rest % 256))

\* An attempt of the poll's read, not the last one, has failed with a
\* decode error and the read has called self.disconnect().
DecodeErrorPending ==
    /\ call["poll"].op = "read"
    /\ call["poll"].pc = "nested_wait"
    /\ call["poll"].nested = "disconnect"

\* C23: when a read attempt other than the last fails with a decode error,
\* the hub closes the connection before the next attempt begins: the read
\* gets to the head of its next attempt with the socket closed (where it
\* re-opens the connection before reading).
C23_DecodeErrorClosesConnection ==
    DecodeErrorPending ~>
        ( /\ call["poll"].op = "read"
          /\ call["poll"].pc = "in"
          /\ call["poll"].attempt >= 1
          /\ ~sockOpen )

\* The distinct members of a list in ascending order.
AscendingDistinct(list) ==
    LET S == SeqToSet(list) IN
    CHOOSE seq \in [ 1..Cardinality(S) -> S ] :
        \A i, j \in 1..Cardinality(S) : i < j => seq[i] < seq[j]

\* The reads a full cycle owes: group after group in the configured
\* order, each group's distinct addresses ascending, one register each.
RECURSIVE OwedReads(_)
OwedReads(i) ==
    IF i > Len(GroupOrder) THEN << >>
    ELSE LET regs == AscendingDistinct(REGISTER_GROUPS[GroupOrder[i]]) IN
         [ k \in 1..Len(regs) |->
             [ group |-> GroupOrder[i], addr |-> regs[k], count |-> 1 ] ]
         \o OwedReads(i + 1)

\* C24: the group reads of a poll cycle are single-register hub reads
\* issued group after group in the configured order and in ascending
\* address order within a group, each address once per group that lists
\* it: what a cycle has read so far is an initial part of that plan, the
\* read in progress is the plan's latest entry, and a cycle that publishes
\* has read all of it.  A group list that repeats an address yields one
\* read of it.
C24_GroupReadPlan ==
    /\ LET plan == OwedReads(1) IN
       /\ Len(groupLog) <= Len(plan)
       /\ groupLog = SubSeq(plan, 1, Len(groupLog))
       /\ lastUpdate = "success" => groupLog = plan
    /\ cpc = "groups" =>
          /\ groupLog # << >>
          /\ call["poll"].op = "read"
          /\ call["poll"].addr = groupLog[Len(groupLog)].addr
    /\ \A list \in { << 4120, 4113, 4120 >>, << 4113, 4113 >>,
                      << 4164, 4120, 4113 >> } :
          sorted_regs(list) = AscendingDistinct(list)

\* C24 witness: a cycle has published after reading every owed address,
\* one of them without success.
C24_Witness ==
    /\ lastUpdate = "success"
    /\ groupLog = OwedReads(1)
    /\ Len(groupLog) = 3
    /\ failReads # {}

\* The user step reached its connection test: a host was submitted (or
\* taken from the discovery) and it is not configured yet.
ConnectionTested ==
    /\ fin.kind = "config"
    /\ \/ fin.user_input = "host"
       \/ fin.user_input = "no_host" /\ fin.discovered

\* C25: the user step creates a config entry only after the TCP connect
\* succeeded and the verification read returned a non-error response; a
\* failed connect, an error response and an exception each create no entry
\* and re-show the form with the error cannot_connect, cannot_read and
\* unknown respectively.
C25_EntryOnlyAfterVerifiedRead ==
    /\ (fin.kind = "config" /\ fout.type = "create_entry") =>
          (ConnectionTested /\ fin.connected = "True" /\ fin.result = "ok")
    /\ ConnectionTested =>
          CASE fin.connected = "False" ->
                 fout = [ type |-> "form", errors |-> "cannot_connect" ]
            [] fin.connected = "raise" ->
                 fout = [ type |-> "form", errors |-> "unknown" ]
            [] fin.result = "error" ->
                 fout = [ type |-> "form", errors |-> "cannot_read" ]
            [] fin.result = "raise" ->
                 fout = [ type |-> "form", errors |-> "unknown" ]
            [] fin.result = "ok" ->
                 fout = [ type |-> "create_entry", errors |-> "none" ]
            [] OTHER -> fout.type # "create_entry"

\* C25 witness: the connect succeeded, the verification read came back as
\* an error response and the form is shown again with cannot_read.
C25_Witness ==
    /\ ConnectionTested
    /\ fin.connected = "True"
    /\ fin.result = "error"
    /\ fout = [ type |-> "form", errors |-> "cannot_read" ]

\* C26: every value an entity passes to a register write (scaled
\* setpoints, force-flag bit masks, composite AUX values, host-name
\* character pairs) lies in 0..65535, the range of one 16-bit register.
C26_WrittenValuesFit16Bits ==
    \A i \in DOMAIN writeLog : writeLog[i].val \in 0..65535

\* C27: the EEPROM-commit flag write is issued only after the write(s) it
\* persists all succeeded: when the AUX-function write or a host-name
\* register write of an action failed, no commit write follows within that
\* action.
C27_CommitOnlyAfterSuccess ==
    \A i \in DOMAIN writeLog :
        (i > 1 /\ writeLog[i].addr = REGISTER_MAP.FORCE_FLAG_BITS) =>
            \A j \in 1..(i - 1) : ~WriteFailed(writeLog[j].res)

\* AUX1 was set to f1, then AUX2 to f2, and all four writes succeeded.
Aux1ThenAux2 ==
    /\ ent.kind = "aux"
    /\ "first" \in DOMAIN ent
    /\ ent.first[1] = "AUX1"
    /\ ent.arg[1] = "AUX2"
    /\ ent.outcome = "completed"
    /\ Len(writeLog) = 2
    /\ \A i \in DOMAIN writeLog : ~WriteFailed(writeLog[i].res)

C29_CleanPollHoldsAuxValue ==
    (lastUpdate = "success" /\ failReads = {} /\ coordData.valid) =>
        aux_current_value # None

\* The reading at hand is in range and no faster than 2 degrees per second
\* away from the last accepted reading, counted from the time of that
\* reading.
EnoughTimeElapsed ==
    LET temp == SignedTenths(fin.value) IN
    /\ temp >= -500
    /\ temp <= 1500
    /\ fin.sensor.last_temp # None
    /\ fin.sensor.last_time # None
    /\ Abs(temp - fin.sensor.last_temp[1])
          <= 2 * (fin.current_time - fin.sensor.last_time[1])

\* C30: a rejected temperature reading (out of range or too fast) leaves
\* the last accepted value and its timestamp unchanged, an accepted reading
\* replaces both, and the next reading is judged against what the previous
\* one left; so a step change that persists is accepted as soon as enough
\* time has passed since the last accepted reading.
C30_RejectionKeepsLastAccepted ==
    /\ [](fin.kind = "temperature" =>
            /\ fout.result = None => fout.sensor = fin.sensor
            /\ fout.result # None =>
                  fout.sensor = [ last_temp |-> fout.result,
                                  last_time |-> Some(fin.current_time) ]
            /\ EnoughTimeElapsed =>
                  fout.result = Some(SignedTenths(fin.value)))
    /\ [][(fin.kind = "temperature" /\ fin'.kind = "temperature") =>
             fin'.sensor = fout.sensor]_vars

\* C30 witness: 25.0 degrees was accepted at t = 0, 40.0 degrees was
\* rejected at t = 0.1 s, and the same 40.0 degrees, read 10 s later
\* against the reading of t = 0, has been accepted.
C30_Witness ==
    /\ fin.kind = "temperature"
    /\ fin.n = 3
    /\ fin.sensor = [ last_temp |-> Some(250), last_time |-> Some(0) ]
    /\ fin.value = 400
    /\ fin.current_time = 101
    /\ fout.result = Some(400)
    /\ fout.sensor = [ last_temp |-> Some(400), last_time |-> Some(101) ]

====
